---- MODULE Spec2Model ----
(***************************************************************************)
(* plexpost: the file mapper (plexpost/file_mapper.py), the extension      *)
(* classifier it rests on, and the empty-directory pruner of the post      *)
(* processor.  File names are sequences of one-character strings, so that  *)
(* os.path.splitext / dirname / basename and the regular expression of the *)
(* subtitle ranker are computed character by character.                    *)
(***************************************************************************)
EXTENDS Integers, Sequences, FiniteSets, TLC

VARIABLES
    pc,            \* position in the operation being run
    torrent,       \* [downloadDir, files]: files is the value list of torrent.files()
    dest_dir,      \* the destination root handed to map_single_video_download_with_subs
    main_video,    \* local of map_single_video_download_with_subs (line 132)
    subtitles,     \* local of map_single_video_download_with_subs (line 133)
    sidecar_subs,  \* local of map_single_video_download_with_subs (line 134)
    result,        \* the returned list of rules (line 136)
    filename,      \* the classifier's input
    called,        \* the classifier functions that have been applied to filename
    r_ext,         \* what parse_extension(filename) returned, once called
    r_video,       \* what is_video(filename) returned, once called
    r_subtitle,    \* what is_subtitle(filename) returned, once called
    fs,            \* the download tree: the paths (directories and files) that exist
    fs0,           \* the download tree before the torrent's files were deleted
    deletedFiles,  \* the torrent's files, the list handed to the pruner
    todo,          \* parent directories whose ancestor chain is still to be walked
    cur,           \* <<d>>: the walk stands at directory d; <<>>: no walk under way
    run,           \* how many times the pruner has been started
    fs_first,      \* the tree as the first run of the pruner left it
    errors         \* errors the pruner has raised

vars == <<pc, torrent, dest_dir, main_video, subtitles, sidecar_subs, result,
          filename, called, r_ext, r_video, r_subtitle,
          fs, fs0, deletedFiles, todo, cur, run, fs_first, errors>>

mapperVars == <<torrent, dest_dir, main_video, subtitles, sidecar_subs, result>>
classifierVars == <<filename, called, r_ext, r_video, r_subtitle>>
prunerVars == <<fs, fs0, deletedFiles, todo, cur, run, fs_first, errors>>

(***************************************************************************)
(* Bounds of the model.                                                    *)
(***************************************************************************)
MaxFiles == 4
MaxVideoFiles == 3
MaxRankFiles == 4
MaxNameLen == 5
MaxTorrentFiles == 3
MaxRuns == 2

(***************************************************************************)
(* Characters and strings.                                                 *)
(***************************************************************************)
UpperCase ==
    <<"A","B","C","D","E","F","G","H","I","J","K","L","M",
      "N","O","P","Q","R","S","T","U","V","W","X","Y","Z">>

LowerCase ==
    <<"a","b","c","d","e","f","g","h","i","j","k","l","m",
      "n","o","p","q","r","s","t","u","v","w","x","y","z">>

Digits == {"0","1","2","3","4","5","6","7","8","9"}

Range(s) == {s[i] : i \in 1..Len(s)}

\* str.lower() of one character, as re.IGNORECASE compares
Lower(c) ==
    IF \E i \in 1..26 : UpperCase[i] = c
    THEN LowerCase[CHOOSE i \in 1..26 : UpperCase[i] = c]
    ELSE c

LowerStr(s) == [i \in 1..Len(s) |-> Lower(s[i])]

\* \w of the re module, on the characters used here
IsWordChar(c) == c \in Range(UpperCase) \cup Range(LowerCase) \cup Digits \cup {"_"}

\* s[a:b] of Python with 0 <= a, b: the characters a+1 .. b
Slice(s, a, b) == IF b > a THEN SubSeq(s, a + 1, b) ELSE <<>>

\* str.rfind(c) + 1: the last position of c in s, 0 when there is none
RFind(s, c) ==
    IF \E i \in 1..Len(s) : s[i] = c
    THEN CHOOSE i \in 1..Len(s) : s[i] = c /\ \A j \in (i+1)..Len(s) : s[j] # c
    ELSE 0

(***************************************************************************)
(* os.path (posixpath) as file_mapper.py uses it.                          *)
(***************************************************************************)
\* os.path.splitext: genericpath._splitext(p, '/', None, '.')
splitext(p) ==
    LET sepIndex == RFind(p, "/")
        dotIndex == RFind(p, ".")
    IN IF dotIndex > sepIndex
          /\ \E k \in (sepIndex + 1)..(dotIndex - 1) : p[k] # "."
       THEN <<Slice(p, 0, dotIndex - 1), Slice(p, dotIndex - 1, Len(p))>>
       ELSE <<p, <<>>>>

\* os.path.dirname
dirname(p) ==
    LET i == RFind(p, "/")
        head == Slice(p, 0, i)
        \* head.rstrip('/')
        last == IF \E k \in 1..Len(head) : head[k] # "/"
                THEN CHOOSE k \in 1..Len(head) :
                        head[k] # "/" /\ \A j \in (k+1)..Len(head) : head[j] = "/"
                ELSE 0
    IN IF head # <<>> /\ (\E k \in 1..Len(head) : head[k] # "/")
       THEN Slice(head, 0, last)
       ELSE head

\* os.path.basename
basename(p) == Slice(p, RFind(p, "/"), Len(p))

(***************************************************************************)
(* The extension classifier.                                               *)
(***************************************************************************)
\* variant: the text after the last '.' of the whole name
parse_extension_last_dot(name) ==
    Slice(name, RFind(name, "."), Len(name))

parse_extension(name) ==
    LET e == splitext(name)[2] IN Slice(e, 1, Len(e))

VideoExtensions == {<<"a","v","i">>, <<"m","k","v">>, <<"m","p","4">>}

SubtitleExtensions ==
    {<<"s","u","b">>, <<"i","d","x">>, <<"s","r","t">>, <<"s","m","i">>,
     <<"s","s","a">>, <<"a","s","s">>, <<"v","t","t">>}

is_video(name) == parse_extension(name) \in VideoExtensions

is_subtitle(name) == parse_extension(name) \in SubtitleExtensions

(***************************************************************************)
(* sorted(xs, key=..., reverse=True): keys[i] is the key of xs[i].  The    *)
(* sort is stable, and reverse=True keeps the original order of equal      *)
(* keys: xs[i] lands after every element with a larger key and after the   *)
(* earlier elements with the same key.                                     *)
(***************************************************************************)
\* variant: equal keys come out in reverse input order
sorted_reverse_unstable(xs, keys) ==
    LET n == Len(xs)
        pos(i) == 1 + Cardinality({j \in 1..n : keys[j] > keys[i]})
                    + Cardinality({j \in 1..n : j > i /\ keys[j] = keys[i]})
    IN [p \in 1..n |-> xs[CHOOSE i \in 1..n : pos(i) = p]]

sorted_reverse(xs, keys) ==
    LET n == Len(xs)
        pos(i) == 1 + Cardinality({j \in 1..n : keys[j] > keys[i]})
                    + Cardinality({j \in 1..n : j < i /\ keys[j] = keys[i]})
    IN [p \in 1..n |-> xs[CHOOSE i \in 1..n : pos(i) = p]]

\* [x for x in xs if Test(x)]
RECURSIVE Filter(_, _)
Filter(xs, keep) ==
    IF xs = <<>> THEN <<>>
    ELSE (IF keep[1] THEN <<Head(xs)>> ELSE <<>>)
            \o Filter(Tail(xs), Tail(keep))

(***************************************************************************)
(* The subtitle ranker.                                                    *)
(***************************************************************************)
W_english == <<"e","n","g","l","i","s","h">>
W_eng == <<"e","n","g">>
W_en == <<"e","n">>
W_sdh == <<"s","d","h">>

\* \b at offset i of line (between line[i] and line[i+1])
WordBoundary(line, i) ==
    (i > 0 /\ IsWordChar(line[i])) # (i < Len(line) /\ IsWordChar(line[i + 1]))

\* the word w, ignoring case, at offset i of line, followed by \b
WordAt(line, i, w) ==
    /\ Len(line) >= i + Len(w)
    /\ LowerStr(Slice(line, i, i + Len(w))) = w
    /\ WordBoundary(line, i + Len(w))

\* re.compile(r'\b(w1|w2|...)\b', re.IGNORECASE).match(line) is not None:
\* match() tries the pattern at offset 0 only
contains_any_word_ignoring_case(line, words) ==
    WordBoundary(line, 0) /\ \E w \in words : WordAt(line, 0, w)

is_english_subtitle(name) ==
    contains_any_word_ignoring_case(name, {W_english, W_eng, W_en})

is_sdh_subtitle(name) ==
    contains_any_word_ignoring_case(name, {W_sdh})

rank_subtitle(subtitle) ==
    LET name == basename(subtitle.filename)
    IN IF is_english_subtitle(name)
       THEN (IF is_sdh_subtitle(name) THEN 90 ELSE 100)
       ELSE 80

(***************************************************************************)
(* The file mapper.  A rule is [download_dir, filename, dest]; the rules   *)
(* sidecar_best_non_vobsub has ranked also carry rank.                     *)
(***************************************************************************)
Rule(d, f, t) == [download_dir |-> d, filename |-> f, dest |-> t]

\* variant: the is_video filter is missing
forward_main_videos_unfiltered(t) ==
    LET videos == t.files
        videos_by_size ==
            sorted_reverse(videos, [i \in 1..Len(videos) |-> videos[i].size])
    IN IF Len(videos_by_size) > 0
       THEN <<Rule(t.downloadDir, videos_by_size[1].name, videos_by_size[1].name)>>
       ELSE <<>>

forward_main_videos(t) ==
    LET videos == Filter(t.files, [i \in 1..Len(t.files) |-> is_video(t.files[i].name)])
        videos_by_size ==
            sorted_reverse(videos, [i \in 1..Len(videos) |-> videos[i].size])
    IN IF Len(videos_by_size) > 0
       THEN <<Rule(t.downloadDir, videos_by_size[1].name, videos_by_size[1].name)>>
       ELSE <<>>

\* variant: subtitles are forwarded only beside a video
forward_subtitles_if_video(t) ==
    LET subs == Filter(t.files, [i \in 1..Len(t.files) |-> is_subtitle(t.files[i].name)])
    IN IF \E i \in 1..Len(t.files) : is_video(t.files[i].name)
       THEN [i \in 1..Len(subs) |-> Rule(t.downloadDir, subs[i].name, subs[i].name)]
       ELSE <<>>

forward_subtitles(t) ==
    LET subs == Filter(t.files, [i \in 1..Len(t.files) |-> is_subtitle(t.files[i].name)])
    IN [i \in 1..Len(subs) |-> Rule(t.downloadDir, subs[i].name, subs[i].name)]

\* variant: a co-located subtitle goes unnoticed
has_sidecar_never(subs, video_dir) == FALSE

has_sidecar(subs, video_dir) ==
    \E i \in 1..Len(subs) : dirname(subs[i].filename) = video_dir

has_vobsub(subs) ==
    /\ \E i \in 1..Len(subs) : parse_extension(subs[i].filename) = <<"i","d","x">>
    /\ \E i \in 1..Len(subs) : parse_extension(subs[i].filename) = <<"s","u","b">>

SidecarRule(sub, video_dir) ==
    Rule(sub.download_dir, sub.filename, video_dir \o <<"/">> \o basename(sub.filename))

\* variant: the extension test of the loop is missing
sidecar_vobsub_all(subs, video_dir) ==
    [i \in 1..Len(subs) |-> SidecarRule(subs[i], video_dir)]

sidecar_vobsub(subs, video_dir) ==
    LET picked == Filter(subs, [i \in 1..Len(subs) |->
                        parse_extension(subs[i].filename)
                            \in {<<"i","d","x">>, <<"s","u","b">>}])
    IN [i \in 1..Len(picked) |-> SidecarRule(picked[i], video_dir)]

\* the in-place sub['rank'] = rank_subtitle(sub) of sidecar_best_non_vobsub
with_rank(subs) ==
    [i \in 1..Len(subs) |->
        [download_dir |-> subs[i].download_dir, filename |-> subs[i].filename,
         dest |-> subs[i].dest, rank |-> rank_subtitle(subs[i])]]

sidecar_best_non_vobsub(subs, video_dir) ==
    LET ranked == with_rank(subs)
        ranked_subs == sorted_reverse(ranked, [i \in 1..Len(ranked) |-> ranked[i].rank])
    IN IF Len(ranked_subs) <= 0
       THEN <<>>
       ELSE <<SidecarRule(ranked_subs[1], video_dir)>>

sidecar_subtitle(main, subs) ==
    IF Len(main) <= 0 THEN <<>>
    ELSE LET video_dir == dirname(main[1].filename)
         IN IF has_sidecar(subs, video_dir) THEN <<>>
            ELSE IF has_vobsub(subs) THEN sidecar_vobsub(subs, video_dir)
            ELSE sidecar_best_non_vobsub(subs, video_dir)

\* what the call of line 134 leaves in the list `subtitles`: its elements are the
\* dicts sidecar_best_non_vobsub ranks in place, when that branch runs
subtitles_after_sidecar(main, subs) ==
    IF Len(main) <= 0 THEN subs
    ELSE LET video_dir == dirname(main[1].filename)
         IN IF has_sidecar(subs, video_dir) \/ has_vobsub(subs) THEN subs
            ELSE with_rank(subs)

\* variant: the folder is appended instead of prepended
move_to_dir_suffix(folder, files) ==
    [i \in 1..Len(files) |->
        Rule(files[i].download_dir, files[i].filename, files[i].dest \o folder)]

move_to_dir(folder, files) ==
    [i \in 1..Len(files) |->
        Rule(files[i].download_dir, files[i].filename, folder \o files[i].dest)]

(***************************************************************************)
(* Inputs of the mapper.                                                   *)
(***************************************************************************)
N_v_m_mkv == <<"v","/","m",".","m","k","v">>
N_v_n_mp4 == <<"v","/","n",".","m","p","4">>
N_o_avi == <<"o",".","a","v","i">>
N_s_a_idx == <<"s","/","a",".","i","d","x">>
N_s_a_sub == <<"s","/","a",".","s","u","b">>
N_s_b_srt == <<"s","/","b",".","s","r","t">>
N_s_en_srt == <<"s","/","e","n",".","s","r","t">>
N_v_c_srt == <<"v","/","c",".","s","r","t">>
N_r_txt == <<"r",".","t","x","t">>

N_s_movie_english_srt ==
    <<"s","/","m","o","v","i","e",".","e","n","g","l","i","s","h",".","s","r","t">>
N_s_movie_english_sdh_srt ==
    <<"s","/","m","o","v","i","e",".","e","n","g","l","i","s","h",".","s","d","h",
      ".","s","r","t">>
N_s_movie_fr_srt == <<"s","/","m","o","v","i","e",".","f","r",".","s","r","t">>
N_s_ENG_sdh_srt == <<"s","/","E","N","G","-","s","d","h",".","s","r","t">>
N_s_engulfed_srt == <<"s","/","e","n","g","u","l","f","e","d",".","s","r","t">>

File(n, s) == [name |-> n, size |-> s]

Sizes == {10, 30, 50}

\* Spec: videos in two directories, subtitles beside and away from them
FilePool ==
    {File(N_v_m_mkv, 10), File(N_v_n_mp4, 50), File(N_o_avi, 50),
     File(N_s_a_idx, 1), File(N_s_a_sub, 1), File(N_s_b_srt, 1),
     File(N_s_en_srt, 1), File(N_v_c_srt, 1), File(N_r_txt, 1)}

\* SpecVideos: every video in every size
VideoPool ==
    {File(n, s) : n \in {N_v_m_mkv, N_v_n_mp4, N_o_avi}, s \in Sizes}
        \cup {File(N_s_b_srt, 1), File(N_r_txt, 1)}

\* SpecRank: the names the ranker tells apart
RankPool ==
    {File(N_v_m_mkv, 10), File(N_s_movie_english_srt, 1),
     File(N_s_movie_english_sdh_srt, 1), File(N_s_movie_fr_srt, 1),
     File(N_s_en_srt, 1), File(N_s_ENG_sdh_srt, 1), File(N_s_engulfed_srt, 1)}

DistinctNames(fl) ==
    \A i, j \in 1..Len(fl) : i # j => fl[i].name # fl[j].name

FileLists(pool, max) ==
    {fl \in UNION {[1..n -> pool] : n \in 0..max} : DistinctNames(fl)}

DownloadDirs == {"/downloads"}
DestRoots == {<<"/","l","i","b","/">>, <<"t">>}

NoRules == <<>>
NoName == <<>>

\* the parts of the state an operation does not touch
MapperIdle ==
    /\ torrent = [downloadDir |-> "/downloads", files |-> <<>>]
    /\ dest_dir = NoName
    /\ main_video = NoRules
    /\ subtitles = NoRules
    /\ sidecar_subs = NoRules
    /\ result = NoRules

ClassifierIdle ==
    /\ filename = NoName
    /\ called = {}
    /\ r_ext = NoName
    /\ r_video = FALSE
    /\ r_subtitle = FALSE

PrunerIdle ==
    /\ fs = {}
    /\ fs0 = {}
    /\ deletedFiles = {}
    /\ todo = {}
    /\ cur = <<>>
    /\ run = 0
    /\ fs_first = {}
    /\ errors = 0

(***************************************************************************)
(* map_single_video_download_with_subs, one action per statement.          *)
(***************************************************************************)
InitMapper(pool, max) ==
    /\ pc = "forward_main_videos"
    /\ torrent \in {[downloadDir |-> d, files |-> fl] :
                        d \in DownloadDirs, fl \in FileLists(pool, max)}
    /\ dest_dir \in DestRoots
    /\ main_video = NoRules
    /\ subtitles = NoRules
    /\ sidecar_subs = NoRules
    /\ result = NoRules
    /\ ClassifierIdle
    /\ PrunerIdle

Init == InitMapper(FilePool, MaxFiles)

InitVideos == InitMapper(VideoPool, MaxVideoFiles)

InitRank == InitMapper(RankPool, MaxRankFiles)

ForwardMainVideos ==
    /\ pc = "forward_main_videos"
    /\ main_video' = forward_main_videos(torrent)
    /\ pc' = "forward_subtitles"
    /\ UNCHANGED <<torrent, dest_dir, subtitles, sidecar_subs, result, classifierVars, prunerVars>>

ForwardSubtitles ==
    /\ pc = "forward_subtitles"
    /\ subtitles' = forward_subtitles(torrent)
    /\ pc' = "sidecar_subtitle"
    /\ UNCHANGED <<torrent, dest_dir, main_video, sidecar_subs, result, classifierVars, prunerVars>>

SidecarSubtitle ==
    /\ pc = "sidecar_subtitle"
    /\ sidecar_subs' = sidecar_subtitle(main_video, subtitles)
    /\ subtitles' = subtitles_after_sidecar(main_video, subtitles)
    /\ pc' = "move_to_dir"
    /\ UNCHANGED <<torrent, dest_dir, main_video, result, classifierVars, prunerVars>>

MoveToDir ==
    /\ pc = "move_to_dir"
    /\ result' = move_to_dir(dest_dir, main_video \o subtitles \o sidecar_subs)
    /\ pc' = "done"
    /\ UNCHANGED <<torrent, dest_dir, main_video, subtitles, sidecar_subs,
                   classifierVars, prunerVars>>

Next ==
    \/ ForwardMainVideos
    \/ ForwardSubtitles
    \/ SidecarSubtitle
    \/ MoveToDir

Spec == Init /\ [][Next]_vars

SpecVideos == InitVideos /\ [][Next]_vars

SpecRank == InitRank /\ [][Next]_vars

(***************************************************************************)
(* The extension classifier on its own: parse_extension, is_video and      *)
(* is_subtitle applied to one file name, in any order.                     *)
(***************************************************************************)
ClassifierAlphabet == {".", "/", "a", "A", "s", "v", "i"}

Names(max) == UNION {[1..n -> ClassifierAlphabet] : n \in 0..max}

InitClassifier ==
    /\ pc = "classifier"
    /\ filename \in Names(MaxNameLen)
    /\ called = {}
    /\ r_ext = NoName
    /\ r_video = FALSE
    /\ r_subtitle = FALSE
    /\ MapperIdle
    /\ PrunerIdle

ParseExtension ==
    /\ pc = "classifier"
    /\ "parse_extension" \notin called
    /\ r_ext' = parse_extension(filename)
    /\ called' = called \cup {"parse_extension"}
    /\ UNCHANGED <<pc, filename, r_video, r_subtitle, mapperVars, prunerVars>>

IsVideo ==
    /\ pc = "classifier"
    /\ "is_video" \notin called
    /\ r_video' = is_video(filename)
    /\ called' = called \cup {"is_video"}
    /\ UNCHANGED <<pc, filename, r_ext, r_subtitle, mapperVars, prunerVars>>

IsSubtitle ==
    /\ pc = "classifier"
    /\ "is_subtitle" \notin called
    /\ r_subtitle' = is_subtitle(filename)
    /\ called' = called \cup {"is_subtitle"}
    /\ UNCHANGED <<pc, filename, r_ext, r_video, mapperVars, prunerVars>>

NextClassifier ==
    \/ ParseExtension
    \/ IsVideo
    \/ IsSubtitle

SpecClassifier == InitClassifier /\ [][NextClassifier]_vars

(***************************************************************************)
(* The directory pruner, pruneEmptyDirectories(root, deletedFiles).  A     *)
(* path is the sequence of its segments below the download root; <<>> is   *)
(* the root itself.                                                        *)
(***************************************************************************)
Root == <<>>

DirPaths == {Root, <<"a">>, <<"a","b">>, <<"a","b","c">>, <<"d">>}

FilePaths ==
    {<<"top">>, <<"a","external">>, <<"a","b","file1">>,
     <<"a","b","c","file2">>, <<"d","file3">>}

Parent(p) == SubSeq(p, 1, Len(p) - 1)

Children(d, tree) == {n \in tree : n # Root /\ Parent(n) = d}

ParentClosed(tree) == \A n \in tree : n = Root \/ Parent(n) \in tree

\* the trees the download directory can hold: the root, and with every path its parent
Trees == {t \in SUBSET (DirPaths \cup FilePaths) : Root \in t /\ ParentClosed(t)}

\* one level of the walk at directory d: the tree it leaves, where the walk goes
\* next (<<>>: the walk ends) and the errors it raises
\* variant: a directory is removed without looking into it
prune_level_no_emptiness_check(tree, d) ==
    IF d = Root
    THEN [fs |-> tree, next |-> <<>>, errors |-> 0]
    ELSE [fs |-> tree \ {d}, next |-> <<Parent(d)>>, errors |-> 0]

\* variant: a directory that is already gone raises an error
prune_level_missing_is_error(tree, d) ==
    IF d = Root
    THEN [fs |-> tree, next |-> <<>>, errors |-> 0]
    ELSE IF d \notin tree
    THEN [fs |-> tree, next |-> <<>>, errors |-> 1]
    ELSE IF Children(d, tree) = {}
    THEN [fs |-> tree \ {d}, next |-> <<Parent(d)>>, errors |-> 0]
    ELSE [fs |-> tree, next |-> <<>>, errors |-> 0]

prune_level(tree, d) ==
    IF d = Root
    THEN [fs |-> tree, next |-> <<>>, errors |-> 0]       \* the root is never deleted
    ELSE IF d \notin tree
    THEN [fs |-> tree, next |-> <<Parent(d)>>, errors |-> 0]  \* already gone: success
    ELSE IF Children(d, tree) = {}
    THEN [fs |-> tree \ {d}, next |-> <<Parent(d)>>, errors |-> 0]
    ELSE [fs |-> tree, next |-> <<>>, errors |-> 0]       \* first non-empty directory

InitPruner ==
    /\ pc = "delete_files"
    /\ fs0 \in Trees
    /\ fs = fs0
    /\ deletedFiles \in {fl \in SUBSET FilePaths : Cardinality(fl) \in 1..MaxTorrentFiles}
    /\ todo = {}
    /\ cur = <<>>
    /\ run = 0
    /\ fs_first = {}
    /\ errors = 0
    /\ MapperIdle
    /\ ClassifierIdle

\* the caller deletes the torrent's files (one that is missing is skipped)
DeleteFiles ==
    /\ pc = "delete_files"
    /\ fs' = fs \ deletedFiles
    /\ pc' = "deleted"
    /\ UNCHANGED <<fs0, deletedFiles, todo, cur, run, fs_first, errors,
                   mapperVars, classifierVars>>

\* pruneEmptyDirectories is entered: every distinct parent directory of a deleted file
StartPrune ==
    /\ pc \in {"deleted", "pruned"}
    /\ run < MaxRuns
    /\ todo' = {Parent(f) : f \in deletedFiles}
    /\ cur' = <<>>
    /\ run' = run + 1
    /\ fs_first' = IF run = 1 THEN fs ELSE fs_first
    /\ pc' = "pruning"
    /\ UNCHANGED <<fs, fs0, deletedFiles, errors, mapperVars, classifierVars>>

\* the walk of the next parent directory begins
BeginWalk ==
    /\ pc = "pruning"
    /\ cur = <<>>
    /\ \E d \in todo :
        /\ cur' = <<d>>
        /\ todo' = todo \ {d}
    /\ UNCHANGED <<pc, fs, fs0, deletedFiles, run, fs_first, errors,
                   mapperVars, classifierVars>>

\* one level of the walk
PruneLevel ==
    /\ pc = "pruning"
    /\ cur # <<>>
    /\ LET r == prune_level(fs, cur[1])
       IN /\ fs' = r.fs
          /\ cur' = r.next
          /\ errors' = errors + r.errors
    /\ UNCHANGED <<pc, fs0, deletedFiles, todo, run, fs_first,
                   mapperVars, classifierVars>>

\* every walk has ended: pruneEmptyDirectories returns
EndPrune ==
    /\ pc = "pruning"
    /\ cur = <<>>
    /\ todo = {}
    /\ pc' = "pruned"
    /\ UNCHANGED <<fs, fs0, deletedFiles, todo, cur, run, fs_first, errors,
                   mapperVars, classifierVars>>

NextPruner ==
    \/ DeleteFiles
    \/ StartPrune
    \/ BeginWalk
    \/ PruneLevel
    \/ EndPrune

SpecPruner == InitPruner /\ [][NextPruner]_vars

(***************************************************************************)
(* What the claims are stated over.                                        *)
(***************************************************************************)
Files == torrent.files
Done == pc = "done"

VideoIdx == {i \in 1..Len(Files) : is_video(Files[i].name)}
SubtitleIdx == {i \in 1..Len(Files) : is_subtitle(Files[i].name)}

\* the i-th member of a set of indices, in increasing order
Nth(S, n) == CHOOSE i \in S : Cardinality({j \in S : j < i}) = n - 1

\* the rule that forwards file i verbatim under the destination root
Verbatim(i) == Rule(torrent.downloadDir, Files[i].name, dest_dir \o Files[i].name)

\* the verbatim rules of the files of S, in input order
VerbatimRules(S) == [n \in 1..Cardinality(S) |-> Verbatim(Nth(S, n))]

\* the sidecar rule of file i beside the video of directory dir, before and
\* after the destination root is put in front
Sidecar(i, dir) ==
    Rule(torrent.downloadDir, Files[i].name, dir \o <<"/">> \o basename(Files[i].name))
SidecarRooted(i, dir) ==
    Rule(torrent.downloadDir, Files[i].name,
         dest_dir \o dir \o <<"/">> \o basename(Files[i].name))

StartsWith(s, prefix) ==
    Len(s) >= Len(prefix) /\ SubSeq(s, 1, Len(prefix)) = prefix

\* the first-listed video among those of maximal size
LargestVideo ==
    CHOOSE i \in VideoIdx :
        /\ \A j \in VideoIdx : Files[j].size <= Files[i].size
        /\ \A j \in VideoIdx : j < i => Files[j].size < Files[i].size

\* the directory of the main video the mapper selected
VideoDir == dirname(main_video[1].filename)

CoLocated == \E i \in SubtitleIdx : dirname(Files[i].name) = VideoDir

ExtIs(i, e) == parse_extension(Files[i].name) = e
VobSubIdx == {i \in SubtitleIdx : ExtIs(i, <<"i","d","x">>) \/ ExtIs(i, <<"s","u","b">>)}
VobSubPair ==
    /\ \E i \in SubtitleIdx : ExtIs(i, <<"i","d","x">>)
    /\ \E i \in SubtitleIdx : ExtIs(i, <<"s","u","b">>)

NameSet == {Files[i].name : i \in 1..Len(Files)}

(***************************************************************************)
(* C1: when the file list holds a video, exactly one main-video rule is    *)
(* emitted; its source is the first-listed video of maximal size and its   *)
(* destination is the destination root followed by the unchanged relative  *)
(* name, whatever the order of the list.                                   *)
(***************************************************************************)
C1_MainVideoIsLargestFirstListed ==
    (Done /\ VideoIdx # {}) =>
        /\ main_video = <<Rule(torrent.downloadDir, Files[LargestVideo].name,
                               Files[LargestVideo].name)>>
        /\ result[1] = Verbatim(LargestVideo)
        /\ Cardinality({k \in 1..Len(result) : is_video(result[k].filename)}) = 1

\* three videos, the smallest listed first and the two largest of one size
C1_Witness ==
    /\ Done
    /\ \E i, j, k \in VideoIdx :
        /\ i < j /\ j < k
        /\ Files[i].size < Files[j].size
        /\ Files[j].size = Files[k].size
        /\ result[1] = Verbatim(j)

(***************************************************************************)
(* C2: every subtitle-classified file has a rule forwarding it verbatim    *)
(* (destination root + original relative name), with or without a video;   *)
(* every sidecar rule comes in addition to the verbatim rule of its source. *)
(***************************************************************************)
C2_SubtitlesForwardedVerbatim ==
    Done =>
        /\ \A i \in SubtitleIdx : \E k \in 1..Len(result) : result[k] = Verbatim(i)
        /\ \A k \in 1..Len(result) :
                result[k].dest # dest_dir \o result[k].filename =>
                    \E n \in 1..Len(result) :
                        /\ result[n].filename = result[k].filename
                        /\ result[n].dest = dest_dir \o result[n].filename

\* a sidecar rule and the verbatim rule of the same subtitle, side by side
C2_Witness ==
    /\ Done
    /\ \E k, n \in 1..Len(result), i \in SubtitleIdx :
        /\ result[k] = Verbatim(i)
        /\ result[n].filename = Files[i].name
        /\ result[n].dest # result[k].dest

(***************************************************************************)
(* C3: when a subtitle lies in the directory of the selected main video,   *)
(* no sidecar rule is emitted: the output is the main-video rule followed  *)
(* by the verbatim subtitle rules, even with a VobSub pair or a            *)
(* higher-ranked subtitle in another directory.                            *)
(***************************************************************************)
C3_CoLocatedSubtitleSuppressesSidecar ==
    (Done /\ main_video # <<>> /\ CoLocated) =>
        /\ sidecar_subs = <<>>
        /\ result = <<Verbatim(LargestVideo)>> \o VerbatimRules(SubtitleIdx)

\* a co-located subtitle with a VobSub pair in another directory
C3_Witness ==
    /\ Done /\ main_video # <<>> /\ CoLocated
    /\ \E i, j \in SubtitleIdx :
        /\ ExtIs(i, <<"i","d","x">>) /\ ExtIs(j, <<"s","u","b">>)
        /\ dirname(Files[i].name) # VideoDir
        /\ dirname(Files[j].name) # VideoDir

(***************************************************************************)
(* C4: with a main video, no co-located subtitle, and at least one .idx    *)
(* and one .sub among the subtitles, the sidecar rules are exactly one per *)
(* .idx and per .sub file, each to <main video directory>/<basename>, and  *)
(* none for a subtitle of another extension.                               *)
(***************************************************************************)
C4_VobSubSidecars ==
    (Done /\ main_video # <<>> /\ ~CoLocated /\ VobSubPair) =>
        /\ sidecar_subs =
            [n \in 1..Cardinality(VobSubIdx) |-> Sidecar(Nth(VobSubIdx, n), VideoDir)]
        /\ result = <<Verbatim(LargestVideo)>> \o VerbatimRules(SubtitleIdx)
                \o [n \in 1..Cardinality(VobSubIdx) |->
                        SidecarRooted(Nth(VobSubIdx, n), VideoDir)]

\* {a.idx, a.sub, b.srt} away from the video: two sidecar rules, none for b.srt
C4_Witness ==
    /\ Done /\ main_video # <<>> /\ ~CoLocated
    /\ {N_s_a_idx, N_s_a_sub, N_s_b_srt} \subseteq NameSet
    /\ Len(sidecar_subs) = 2

(***************************************************************************)
(* C5: movie.english.srt ranks 100, movie.english.sdh.srt 90 and           *)
(* movie.fr.srt 80; given the three in any order with a main video in      *)
(* another directory, the one sidecar rule is that of movie.english.srt.   *)
(***************************************************************************)
C5_EnglishSubtitleIsTheSidecar ==
    (Done /\ NameSet = {N_v_m_mkv, N_s_movie_english_srt,
                        N_s_movie_english_sdh_srt, N_s_movie_fr_srt}) =>
        /\ \A k \in 1..Len(subtitles) :
            subtitles[k].rank =
                CASE subtitles[k].filename = N_s_movie_english_srt -> 100
                  [] subtitles[k].filename = N_s_movie_english_sdh_srt -> 90
                  [] OTHER -> 80
        /\ sidecar_subs =
            <<Rule(torrent.downloadDir, N_s_movie_english_srt,
                   <<"v","/">> \o basename(N_s_movie_english_srt))>>

IsPrefix(p, q) == Len(p) <= Len(q) /\ SubSeq(q, 1, Len(p)) = p

\* the directories on the ancestor chain of a deleted file, the root aside
ChainDirs ==
    {d \in DirPaths \ {Root} : \E f \in deletedFiles : IsPrefix(d, Parent(f))}

\* what does not belong to the deleted set: the files the torrent does not
\* list and the directories on no chain
Untouched == (fs0 \ deletedFiles) \ ChainDirs

(***************************************************************************)
(* C6: once the torrent's files are deleted and pruning has run, the       *)
(* download root still exists, and every directory that still holds a file *)
(* or subdirectory outside the deleted set still exists with that content  *)
(* untouched: a walk stops at the first non-empty directory.  What is left *)
(* is exactly the untouched paths and their ancestors.                     *)
(***************************************************************************)
C6_PruningKeepsRootAndNonEmptyDirectories ==
    /\ Root \in fs
    /\ Untouched \subseteq fs
    /\ ParentClosed(fs)
    /\ pc = "pruned" => fs = {n \in fs0 : \E m \in Untouched : IsPrefix(n, m)}

\* R/a/b/file1 and R/a/external: R/a/b is removed, R/a, R/a/external and R stay
C6_Witness ==
    /\ pc = "pruned"
    /\ fs0 = {Root, <<"a">>, <<"a","b">>, <<"a","b","file1">>, <<"a","external">>}
    /\ deletedFiles = {<<"a","b","file1">>}
    /\ fs = {Root, <<"a">>, <<"a","external">>}

(***************************************************************************)
(* C7: every returned rule has a destination that starts with the          *)
(* destination root, and its source download directory and relative name   *)
(* are those of an input file, unchanged.                                  *)
(***************************************************************************)
C7_RulesRootedAndSourcedFromInput ==
    Done =>
        \A k \in 1..Len(result) :
            /\ StartsWith(result[k].dest, dest_dir)
            /\ Len(result[k].dest) > Len(dest_dir)
            /\ result[k].download_dir = torrent.downloadDir
            /\ result[k].filename \in NameSet

\* a main-video rule, a verbatim subtitle rule and a sidecar rule together
C7_Witness ==
    /\ Done
    /\ main_video # <<>> /\ sidecar_subs # <<>>
    /\ Len(result) = 1 + Len(subtitles) + Len(sidecar_subs)

(***************************************************************************)
(* C8: pruning is idempotent: a second run with the same root and the same *)
(* deleted files, on the tree the first run left, raises no error and      *)
(* changes nothing; a directory or file that is already gone is a success. *)
(***************************************************************************)
C8_SecondPruneChangesNothing ==
    /\ errors = 0
    /\ run >= 2 => fs = fs_first

\* the second run has ended on a tree from which the first removed a directory
C8_Witness ==
    /\ pc = "pruned"
    /\ run = 2
    /\ \E d \in DirPaths : d \in fs0 /\ d \notin fs
    /\ \E f \in deletedFiles : f \notin fs0

(***************************************************************************)
(* C9 as claimed: without a video among the inputs the rule set is empty,  *)
(* also for lists that hold subtitle files.                                *)
(***************************************************************************)
C9_NoVideoGivesNoRules ==
    (Done /\ VideoIdx = {}) => result = <<>>

(***************************************************************************)
(* C9 as amended: without a video among the inputs there is no main-video  *)
(* rule and no sidecar rule, and the rule set is exactly the verbatim      *)
(* rules of the subtitle files (empty when there is no subtitle either).   *)
(***************************************************************************)
C9_NoVideoGivesOnlyVerbatimSubtitles ==
    (Done /\ VideoIdx = {}) =>
        /\ main_video = <<>>
        /\ sidecar_subs = <<>>
        /\ result = VerbatimRules(SubtitleIdx)

\* subtitles and another file, no video: the subtitles are still forwarded
C9_Witness ==
    /\ Done /\ VideoIdx = {}
    /\ Cardinality(SubtitleIdx) >= 2
    /\ Len(Files) > Cardinality(SubtitleIdx)
    /\ Len(result) = Cardinality(SubtitleIdx)

\* the text after the last '.' of a name, the whole name when it has none
AfterLastDot(name) ==
    IF \E k \in 1..Len(name) : name[k] = "."
    THEN LET d == CHOOSE k \in 1..Len(name) :
                    name[k] = "." /\ \A j \in (k+1)..Len(name) : name[j] # "."
         IN SubSeq(name, d + 1, Len(name))
    ELSE name

(***************************************************************************)
(* C10 as claimed: the extension is what follows the last '.' of the file  *)
(* name (the whole name without a '.'), and the file is a video iff that   *)
(* is avi, mkv or mp4, a subtitle iff it is sub, idx, srt, smi, ssa, ass   *)
(* or vtt, compared as written; for every name, also one whose only '.'    *)
(* leads the final path segment or lies in a directory segment.            *)
(***************************************************************************)
C10_ClassifiedByTextAfterLastDot ==
    /\ "is_video" \in called => (r_video <=> AfterLastDot(filename) \in VideoExtensions)
    /\ "is_subtitle" \in called =>
            (r_subtitle <=> AfterLastDot(filename) \in SubtitleExtensions)

\* the final path segment of a name, and the extension of a segment
FinalSegment(name) ==
    LET s == CHOOSE k \in 0..Len(name) :
                (k = 0 \/ name[k] = "/") /\ \A j \in (k+1)..Len(name) : name[j] # "/"
    IN SubSeq(name, s + 1, Len(name))

SegmentExtension(seg) ==
    LET dots == {k \in 1..Len(seg) : seg[k] = "."}
        real == {k \in dots : \E j \in 1..(k-1) : seg[j] # "."}
    IN IF real = {} THEN <<>>
       ELSE LET d == CHOOSE k \in real : \A j \in real : j <= k
            IN SubSeq(seg, d + 1, Len(seg))

(***************************************************************************)
(* C10 as amended: the extension is what follows the last '.' of the final *)
(* path segment when a character other than '.' precedes that '.' in the   *)
(* segment, and is empty otherwise (no '.' in the segment, or only leading *)
(* dots); the file is a video iff that extension is avi, mkv or mp4, a     *)
(* subtitle iff it is sub, idx, srt, smi, ssa, ass or vtt, compared as     *)
(* written, and other otherwise.                                           *)
(***************************************************************************)
C10_ClassifiedBySegmentExtension ==
    LET e == SegmentExtension(FinalSegment(filename))
    IN /\ "parse_extension" \in called => r_ext = e
       /\ "is_video" \in called =>
            (r_video <=> e \in {<<"a","v","i">>, <<"m","k","v">>, <<"m","p","4">>})
       /\ "is_subtitle" \in called =>
            (r_subtitle <=> e \in {<<"s","u","b">>, <<"i","d","x">>, <<"s","r","t">>,
                                 <<"s","m","i">>, <<"s","s","a">>, <<"a","s","s">>,
                                 <<"v","t","t">>})

\* a name whose only '.' leads the final segment: no extension, not a video
C10_Witness ==
    /\ called = {"parse_extension", "is_video", "is_subtitle"}
    /\ filename = <<"/", ".", "a", "v", "i">>
    /\ r_ext = <<>> /\ ~r_video /\ ~r_subtitle

====
